---- MODULE Spec2Model ----
(***************************************************************************)
(* Access control of the user-management API.                              *)
(*                                                                         *)
(* Spec      : the Express request pipeline (router -> authMiddleware ->   *)
(*             adminMiddleware -> UserController handler) over the         *)
(*             Mongoose user store, MaxReq requests in flight.  A request  *)
(*             suspends wherever the code awaits the store.                *)
(* SpecConcurrent : the same pipeline with MaxReq + 1 requests in flight,  *)
(*             so that requests interleave at every await.                 *)
(* SpecRoles : User.hasRole of the TypeORM entity, applied to bounded      *)
(*             role collections.                                           *)
(* SpecPermissions : User.hasPermission over roles that carry permissions. *)
(* SpecRoleEdit : Role.addPermission / Role.removePermission on one Role.  *)
(* SpecOrm   : deleteUser of the NestJS UserService over the TypeORM tables.*)
(* SpecCreate : POST /users, UserController.createUser and                 *)
(*             UserService.createUser over the Mongoose user store.        *)
(*             Also PUT /users/:id with an email or a username, and        *)
(*             deleteUser.  SpecCreateConcurrent: one more request slot.   *)
(* SpecResponses : the response bodies of the create, get and update       *)
(*             endpoints of both stacks.                                   *)
(* SpecService : the read calls of the Mongoose UserService (getAllUsers,  *)
(*             getUserByEmail, getUserByUsername, getUserById) between     *)
(*             deleteUser and updateUser calls.                            *)
(***************************************************************************)
EXTENDS Integers, Sequences, FiniteSets, TLC

\* ------------------------------------------------------------------ bounds
\* Number of requests in flight at the same time under Spec; SpecConcurrent
\* has one more, so that requests overlap.
MaxReq == 1
\* Longest role collection attached to a TypeORM User.
MaxRoles == 2
\* Number of Permission records.
MaxPerms == 2

Requests == 1..MaxReq
ConcurrentRequests == 1..(MaxReq + 1)

\* ------------------------------------------------------------ identities
UserIds == {"u1", "u2"}
\* A well-formed id no record has, and a string that is no ObjectId at all.
MissingId == "u9"
BadId == "not-an-objectid"

RoleEnum == {"user", "admin", "moderator"}

\* ---------------------------------------------------------------- tokens
Secret == "s1"
OtherSecret == "s2"
NoSecret == ""

Jwt(id, key, expired) == [kind |-> "jwt", id |-> id, key |-> key, expired |-> expired]
Garbage == [kind |-> "garbage", id |-> "", key |-> "", expired |-> FALSE]
EmptyString == [kind |-> "empty", id |-> "", key |-> "", expired |-> FALSE]
Undefined == [kind |-> "undefined", id |-> "", key |-> "", expired |-> FALSE]

\* Tokens a client can present: signed for each id with the server's secret,
\* signed with a different secret, expired, or not a JWT.
Tokens ==
  {Jwt(id, Secret, FALSE) : id \in UserIds \cup {MissingId, BadId}}
    \cup {Jwt("u1", OtherSecret, FALSE), Jwt("u1", Secret, TRUE), Garbage}

\* The Authorization header: absent, or a string that does or does not start
\* with 'Bearer ' followed by a (possibly empty) credential.
NoHeader == [present |-> FALSE, bearer |-> FALSE, cred |-> EmptyString]
Headers ==
  {NoHeader}
    \cup {[present |-> TRUE, bearer |-> TRUE, cred |-> t] : t \in Tokens \cup {EmptyString}}
    \cup {[present |-> TRUE, bearer |-> FALSE, cred |-> t] : t \in {Jwt("u2", Secret, FALSE), Garbage}}

\* req.header('Authorization')?.replace('Bearer ', '')
ExtractToken(h) == IF h.present THEN h.cred ELSE Undefined

\* !token : undefined and '' are falsy
FalsyUndefinedOnly(t) == t.kind = "undefined"
Falsy(t) == t.kind \in {"undefined", "empty"}

\* jwt.verify(token, jwtSecret): the payload, or a throw
jwtVerifyLoose(t, secret) == t.kind = "jwt" /\ ~t.expired
jwtVerify(t, secret) == t.kind = "jwt" /\ t.key = secret /\ ~t.expired

\* ------------------------------------------------------------- variables
VARIABLES
  users,        \* the Mongoose User collection: id -> document
  jwtSecret,    \* process.env.JWT_SECRET
  req,          \* per request slot: the request, its locals and its response
  deleted,      \* history: ids for which deleteUser has completed with true
  afterDelete,  \* history: the store read of the slot's authMiddleware came after
                \* deleteUser of the token's id had completed (POST /users: the
                \* findOne came after deleteUser of a holder of the body's
                \* email or username)
  roles,        \* SpecRoles: the roles attached to a TypeORM User
  roleName,     \* SpecRoles: the argument of the last hasRole call
  answer,       \* SpecRoles: what that call returned
  gate,         \* SpecRoles: a request as adminMiddleware left it
  permissionName, \* SpecPermissions: the argument of the last hasPermission call
  permitted,    \* SpecPermissions: what that call returned
  role,         \* SpecRoleEdit: the Role whose permissions are edited
  lastOp,       \* SpecRoleEdit: the last edit and the collection before it
  orm,          \* SpecOrm: the TypeORM tables users, roles, permissions and
                \* the join tables user_roles and role_permissions
  call          \* SpecService: the last UserService call, its arguments and
                \* what it returned

vars ==
  <<users, jwtSecret, req, deleted, afterDelete, roles, roleName, answer, gate,
    permissionName, permitted, role, lastOp, orm, call>>
pipelineVars == <<users, jwtSecret, req, deleted, afterDelete>>
permissionVars == <<permissionName, permitted, role, lastOp>>
roleVars == <<roles, roleName, answer, gate, permissionVars, orm, call>>

\* the request slots of the running specification
Slots == DOMAIN req

\* ----------------------------------------------------------------- store
\* The password path of a stored document: a bcrypt hash, never the plain text.
StoredPassword == "bcrypt(secret)"
EmailOf(id) == IF id = "u1" THEN "a@x.io" ELSE "b@x.io"
UsernameOf(id) == IF id = "u1" THEN "alice" ELSE "bob"

\* What a query hands back: a document, null, or a thrown error.
NoUser == [kind |-> "none", id |-> "", email |-> "", role |-> "", isActive |-> FALSE]
NullUser == [NoUser EXCEPT !.kind = "null"]
ErrorUser == [NoUser EXCEPT !.kind = "error"]
Doc(store, id) ==
  [kind |-> "doc", id |-> id, email |-> store[id].email, role |-> store[id].role,
   isActive |-> store[id].isActive]

\* UserService.getUserById: User.findById(id).select('-password'); a string
\* that is no ObjectId makes the query throw, which the service rethrows.
getUserById(store, id) ==
  IF id = BadId THEN ErrorUser
  ELSE IF id \in DOMAIN store THEN Doc(store, id)
  ELSE NullUser

\* UserService.deleteUser: findByIdAndUpdate(id, {$set: {isActive: false}})
deleteUserHard(store, id) ==
  IF id \in DOMAIN store
    THEN [users |-> [i \in DOMAIN store \ {id} |-> store[i]], result |-> TRUE]
    ELSE [users |-> store, result |-> FALSE]
deleteUser(store, id) ==
  IF id \in DOMAIN store
    THEN [users |-> [store EXCEPT ![id].isActive = FALSE], result |-> TRUE]
    ELSE [users |-> store, result |-> FALSE]

\* Request bodies of the PUT routes (req.body is whatever JSON the client sent).
EmptyBody == [f \in {} |-> ""]
Bodies ==
  {EmptyBody, [isActive |-> TRUE], [role |-> "admin"],
   [password |-> "pw"]}

\* UserService.updateUser without email/username in the data: the password
\* key is deleted, the rest is $set on the document (paths outside the schema
\* are dropped by Mongoose's strict mode).
safeUpdateDataKeepPassword(updateData) == updateData
safeUpdateData(updateData) == [f \in DOMAIN updateData \ {"password"} |-> updateData[f]]
updateUser(store, id, updateData) ==
  LET set(doc) == [f \in DOMAIN doc |->
                     IF f \in DOMAIN safeUpdateData(updateData)
                       THEN safeUpdateData(updateData)[f] ELSE doc[f]]
  IN  IF id \in DOMAIN store
        THEN [users |-> [store EXCEPT ![id] = set(store[id])], result |-> TRUE]
        ELSE [users |-> store, result |-> FALSE]

\* ---------------------------------------------------------------- router
\* userRoutes: the protected and the admin routes, each with its chain.
ProfileRoutes == {"GET /users/profile", "PUT /users/profile"}
AdminRoutes == {"GET /users", "GET /users/:id", "PUT /users/:id", "DELETE /users/:id"}
Routes == ProfileRoutes \cup AdminRoutes

routerNoGate ==
  [rt \in Routes |->
     CASE rt = "GET /users/profile" -> <<"authMiddleware", "getProfile">>
       [] rt = "PUT /users/profile" -> <<"authMiddleware", "updateProfile">>
       [] rt = "GET /users" -> <<"authMiddleware", "adminMiddleware", "getAllUsers">>
       [] rt = "GET /users/:id" -> <<"authMiddleware", "adminMiddleware", "getUserById">>
       [] rt = "PUT /users/:id" -> <<"authMiddleware", "updateUser">>
       [] rt = "DELETE /users/:id" -> <<"authMiddleware", "adminMiddleware", "deleteUser">>]
router ==
  [rt \in Routes |->
     CASE rt = "GET /users/profile" -> <<"authMiddleware", "getProfile">>
       [] rt = "PUT /users/profile" -> <<"authMiddleware", "updateProfile">>
       [] rt = "GET /users" -> <<"authMiddleware", "adminMiddleware", "getAllUsers">>
       [] rt = "GET /users/:id" -> <<"authMiddleware", "adminMiddleware", "getUserById">>
       [] rt = "PUT /users/:id" -> <<"authMiddleware", "adminMiddleware", "updateUser">>
       [] rt = "DELETE /users/:id" -> <<"authMiddleware", "adminMiddleware", "deleteUser">>]

Handlers == {"getProfile", "updateProfile", "getAllUsers", "getUserById", "updateUser", "deleteUser"}

\* --------------------------------------------------------------- request
NoReqUser == [set |-> FALSE, id |-> "", email |-> "", role |-> ""]
\* res: status 0 = nothing written; errors = the body carries an errors array
NoRes == [status |-> 0, success |-> FALSE, message |-> "", errors |-> FALSE]
Json(status, message, errors) ==
  [status |-> status, success |-> status < 400, message |-> message, errors |-> errors]

\* A slot: the request (route, hdr), the router's position in the chain (idx),
\* authMiddleware's locals (token, user), req.user, the response, the log of
\* what ran for the request, in order, and req.params.id as the handler read it.
\* For POST /users: req.body, what createUser's findOne returned (found), how
\* the service call ended (outcome) and the id of the saved document (param).
NoBody == [email |-> "", username |-> "", complete |-> FALSE]
Idle ==
  [route |-> "", hdr |-> NoHeader, pc |-> "idle", idx |-> 0, token |-> Undefined,
   user |-> NoUser, reqUser |-> NoReqUser, res |-> NoRes, log |-> <<>>, param |-> "",
   body |-> NoBody, found |-> "", outcome |-> "", data |-> EmptyBody]

Respond(rq, who, status, message, errors) ==
  [rq EXCEPT !.pc = "done", !.res = Json(status, message, errors),
             !.log = Append(@, who \o ".json")]

\* adminMiddleware: what it decides for req.user
adminDecisionAdminOnly(reqUser) ==
  IF ~reqUser.set THEN 401
  ELSE IF reqUser.role # "admin" THEN 403
  ELSE 0
adminDecision(reqUser) ==
  IF ~reqUser.set THEN 401
  ELSE IF reqUser.role # "admin" /\ reqUser.role # "moderator" THEN 403
  ELSE 0

\* authMiddleware up to its await: the token is taken from the header and
\* verified; a throw (no secret, jwt.verify) lands in the catch block.
authMiddlewareBeginLookupFirst(rq, secret) ==
  LET token == ExtractToken(rq.hdr)
      in == [rq EXCEPT !.token = token, !.hdr = NoHeader, !.log = Append(@, "authMiddleware")]
      called == [in EXCEPT !.log = Append(@, "userService.getUserById")]
  IN  IF Falsy(token)
        THEN Respond(in, "authMiddleware", 401, "Access denied. No token provided.", FALSE)
      ELSE IF secret = NoSecret
        THEN Respond(in, "authMiddleware", 401, "Invalid token.", TRUE)
      ELSE IF ~jwtVerify(token, secret)
        THEN Respond(called, "authMiddleware", 401, "Invalid token.", TRUE)
      ELSE [called EXCEPT !.pc = "lookup"]
authMiddlewareBeginSecretFirst(rq, secret) ==
  LET token == ExtractToken(rq.hdr)
      in == [rq EXCEPT !.token = token, !.hdr = NoHeader, !.log = Append(@, "authMiddleware")]
  IN  IF secret = NoSecret
        THEN Respond(in, "authMiddleware", 401, "Invalid token.", TRUE)
      ELSE IF Falsy(token)
        THEN Respond(in, "authMiddleware", 401, "Access denied. No token provided.", FALSE)
      ELSE IF ~jwtVerify(token, secret)
        THEN Respond(in, "authMiddleware", 401, "Invalid token.", TRUE)
      ELSE [in EXCEPT !.pc = "lookup", !.log = Append(@, "userService.getUserById")]
authMiddlewareBegin(rq, secret) ==
  LET token == ExtractToken(rq.hdr)
      \* (the header is read here and nowhere else: the slot drops it)
      in == [rq EXCEPT !.token = token, !.hdr = NoHeader, !.log = Append(@, "authMiddleware")]
  IN  IF Falsy(token)
        THEN Respond(in, "authMiddleware", 401, "Access denied. No token provided.", FALSE)
      ELSE IF secret = NoSecret
        THEN Respond(in, "authMiddleware", 401, "Invalid token.", TRUE)
      ELSE IF ~jwtVerify(token, secret)
        THEN Respond(in, "authMiddleware", 401, "Invalid token.", TRUE)
      ELSE [in EXCEPT !.pc = "lookup", !.log = Append(@, "userService.getUserById")]

\* The router runs the chain from position i until a middleware answers or
\* suspends; next() is a synchronous call into the following entry.
RECURSIVE Dispatch(_, _, _)
Dispatch(rq, i, secret) ==
  LET m == router[rq.route][i]
      at == [rq EXCEPT !.idx = i]
  IN  IF m = "authMiddleware" THEN authMiddlewareBegin(at, secret)
      ELSE IF m = "adminMiddleware" THEN
        LET in == [at EXCEPT !.log = Append(@, "adminMiddleware")]
            d == adminDecision(in.reqUser)
        IN  IF d = 401 THEN Respond(in, "adminMiddleware", 401, "Authentication required.", FALSE)
            ELSE IF d = 403
              THEN Respond(in, "adminMiddleware", 403, "Access denied. Admin privileges required.", FALSE)
            ELSE Dispatch([in EXCEPT !.log = Append(@, "adminMiddleware.next")], i + 1, secret)
      ELSE [at EXCEPT !.pc = "handler", !.log = Append(@, m)]

\* authMiddleware after its await: the lookup's outcome decides.
authMiddlewareResumeOpen(rq, secret) ==
  LET user == rq.user
  IN  IF user.kind = "error"
        THEN Respond(rq, "authMiddleware", 401, "Invalid token.", TRUE)
      ELSE IF user.kind = "null"
        THEN Respond(rq, "authMiddleware", 401, "Invalid token or user not found.", FALSE)
      ELSE Dispatch([rq EXCEPT !.reqUser = [set |-> TRUE, id |-> user.id,
                                           email |-> user.email, role |-> user.role],
                               !.log = Append(@, "authMiddleware.next")],
                    rq.idx + 1, secret)
authMiddlewareResumeLeak(rq, secret) ==
  LET user == rq.user
      with == [rq EXCEPT !.reqUser = [set |-> TRUE, id |-> user.id,
                                      email |-> user.email, role |-> user.role]]
  IN  IF user.kind = "error"
        THEN Respond(rq, "authMiddleware", 401, "Invalid token.", TRUE)
      ELSE IF user.kind = "null"
        THEN Respond(rq, "authMiddleware", 401, "Invalid token or user not found.", FALSE)
      ELSE IF ~user.isActive
        THEN Respond(with, "authMiddleware", 401, "Invalid token or user not found.", FALSE)
      ELSE Dispatch([with EXCEPT !.log = Append(@, "authMiddleware.next")], rq.idx + 1, secret)
authMiddlewareResumeNoReturn(rq, secret) ==
  LET user == rq.user
      with(q) == [q EXCEPT !.reqUser = [set |-> TRUE, id |-> user.id,
                                        email |-> user.email, role |-> user.role],
                           !.log = Append(@, "authMiddleware.next")]
  IN  IF user.kind = "error"
        THEN Respond(rq, "authMiddleware", 401, "Invalid token.", TRUE)
      ELSE IF user.kind = "null"
        THEN Respond(rq, "authMiddleware", 401, "Invalid token or user not found.", FALSE)
      ELSE IF ~user.isActive
        THEN Dispatch(with(Respond(rq, "authMiddleware", 401,
                                   "Invalid token or user not found.", FALSE)),
                      rq.idx + 1, secret)
      ELSE Dispatch(with(rq), rq.idx + 1, secret)
authMiddlewareResume(rq, secret) ==
  LET user == rq.user
  IN  IF user.kind = "error"
        THEN Respond(rq, "authMiddleware", 401, "Invalid token.", TRUE)
      ELSE IF user.kind = "null" \/ ~user.isActive
        THEN Respond(rq, "authMiddleware", 401, "Invalid token or user not found.", FALSE)
      ELSE Dispatch([rq EXCEPT !.reqUser = [set |-> TRUE, id |-> user.id,
                                           email |-> user.email, role |-> user.role],
                               !.log = Append(@, "authMiddleware.next")],
                    rq.idx + 1, secret)

\* ------------------------------------------ Permission and Role entities
PermissionIds == 1..MaxPerms
\* Permission.name is a unique column: one name per record
PermissionName(id) == <<"users:read", "users:write", "users:delete", "roles:manage">>[id]
Permission(id) == [id |-> id, name |-> PermissionName(id)]
Permissions == {Permission(id) : id \in PermissionIds}

\* A Role entity: `defined` is false while this.permissions is undefined (a
\* Role made with new Role() and never loaded).
RoleEntity(name, isActive, permissions) ==
  [name |-> name, isActive |-> isActive, defined |-> TRUE, permissions |-> permissions]
FreshRole == [RoleEntity("user", TRUE, <<>>) EXCEPT !.defined = FALSE]

NoOp == [kind |-> "none", id |-> 0, before |-> FreshRole]
\* The TypeORM tables, empty.
NoOrm ==
  [users |-> {}, roles |-> {}, permissions |-> {}, user_roles |-> {}, role_permissions |-> {}]
NoCall == [op |-> ""]
NoPermissionCall ==
  /\ permissionName = ""
  /\ permitted = FALSE
  /\ role = FreshRole
  /\ lastOp = NoOp
  /\ call = NoCall
  /\ orm = NoOrm

\* ----------------------------------------------------------------- state
Init ==
  /\ \E r2 \in {"user", "moderator"} :
       users = [id \in UserIds |->
                  [email |-> EmailOf(id), username |-> UsernameOf(id),
                   role |-> IF id = "u1" THEN "admin" ELSE r2, isActive |-> TRUE,
                   password |-> StoredPassword]]
  /\ jwtSecret \in {Secret, NoSecret}
  /\ req = [r \in Requests |-> Idle]
  /\ deleted = {}
  /\ afterDelete = [r \in Requests |-> FALSE]
  /\ roles = <<>>
  /\ roleName = ""
  /\ answer = FALSE
  /\ gate = Idle
  /\ NoPermissionCall

\* The local `user` of the slot's own authMiddleware call
LookedUpShared(r) ==
  LET ready == {q \in Slots : req[q].pc = "resume"}
  IN  req[CHOOSE q \in ready : \A p \in ready : p <= q].user
LookedUp(r) == req[r].user

\* A request comes in on a free slot and the router runs its chain up to the
\* first await.
Arrive(r) ==
  /\ req[r].pc = "idle"
  /\ \E rt \in Routes, h \in Headers :
       req' = [req EXCEPT ![r] = Dispatch([Idle EXCEPT !.route = rt, !.hdr = h], 1, jwtSecret)]
  /\ UNCHANGED <<users, jwtSecret, deleted, afterDelete, roleVars>>

\* The store answers authMiddleware's getUserById(decoded.id): with the
\* document as it is now, with null, or with an error.
StoreLookup(r) ==
  /\ req[r].pc = "lookup"
  /\ \E user \in {getUserById(users, req[r].token.id), ErrorUser} :
       req' = [req EXCEPT ![r].user = user, ![r].pc = "resume"]
  /\ afterDelete' = [afterDelete EXCEPT ![r] = req[r].token.id \in deleted]
  /\ UNCHANGED <<users, jwtSecret, deleted, roleVars>>

\* authMiddleware continues after the await, and with it the rest of the chain.
AuthResume(r) ==
  /\ req[r].pc = "resume"
  /\ req' = [req EXCEPT ![r] = authMiddlewareResume([req[r] EXCEPT !.user = LookedUp(r)], jwtSecret)]
  /\ UNCHANGED <<users, jwtSecret, deleted, afterDelete, roleVars>>

\* The answered request is over; its slot is free for the next one.
Release(r) ==
  /\ req[r].pc = "done"
  /\ req' = [req EXCEPT ![r] = Idle]
  /\ afterDelete' = [afterDelete EXCEPT ![r] = FALSE]
  /\ UNCHANGED <<users, jwtSecret, deleted, roleVars>>

AtHandler(r, h) == req[r].pc = "handler" /\ router[req[r].route][req[r].idx] = h

\* A handler answers.
Answer(r, status, message, errors) ==
  req' = [req EXCEPT ![r].pc = "done", ![r].res = Json(status, message, errors),
                     ![r].log = Append(@, "handler.json")]
\* A handler of a /users/:id route answers.
AnswerFor(r, id, status, message, errors) ==
  req' = [req EXCEPT ![r].pc = "done", ![r].res = Json(status, message, errors),
                     ![r].log = Append(@, "handler.json"), ![r].param = id]

ServerError(r) == Answer(r, 500, "Internal server error", TRUE)

\* What the handler's own read of the user showed (data.isActive of the body).
ReadAs(user) == IF user.isActive THEN "active" ELSE "inactive"
AnswerWith(r, user, status, message, errors) ==
  req' = [req EXCEPT ![r].pc = "done", ![r].res = Json(status, message, errors),
                     ![r].log = Append(@, "handler.json"), ![r].outcome = ReadAs(user)]

\* UserController.getProfile
GetProfileRecheck(r) ==
  /\ AtHandler(r, "getProfile")
  /\ IF ~req[r].reqUser.set THEN Answer(r, 401, "Unauthorized", FALSE)
     ELSE \/ /\ getUserById(users, req[r].reqUser.id).kind # "error"
             /\ IF getUserById(users, req[r].reqUser.id).isActive
                  THEN AnswerWith(r, getUserById(users, req[r].reqUser.id), 200, "", FALSE)
                  ELSE Answer(r, 401, "Unauthorized", FALSE)
          \/ ServerError(r)
  /\ UNCHANGED <<users, jwtSecret, deleted, afterDelete, roleVars>>
GetProfile(r) ==
  /\ AtHandler(r, "getProfile")
  /\ IF ~req[r].reqUser.set THEN Answer(r, 401, "Unauthorized", FALSE)
     ELSE \/ /\ getUserById(users, req[r].reqUser.id).kind # "error"
             /\ AnswerWith(r, getUserById(users, req[r].reqUser.id), 200, "", FALSE)
          \/ ServerError(r)
  /\ UNCHANGED <<users, jwtSecret, deleted, afterDelete, roleVars>>

\* UserController.updateProfile
UpdateProfile(r) ==
  /\ AtHandler(r, "updateProfile")
  /\ IF ~req[r].reqUser.set
       THEN Answer(r, 401, "Unauthorized", FALSE) /\ UNCHANGED users
       ELSE \/ \E body \in Bodies :
                 /\ users' = updateUser(users, req[r].reqUser.id, body).users
                 /\ Answer(r, 200, "Profile updated successfully", FALSE)
            \/ ServerError(r) /\ UNCHANGED users
  /\ UNCHANGED <<jwtSecret, deleted, afterDelete, roleVars>>

\* UserController.getAllUsers
GetAllUsers(r) ==
  /\ AtHandler(r, "getAllUsers")
  /\ \/ Answer(r, 200, "", FALSE)
     \/ ServerError(r)
  /\ UNCHANGED <<users, jwtSecret, deleted, afterDelete, roleVars>>

Params == UserIds \cup {MissingId, BadId}

\* UserController.getUserById
GetUserById(r) ==
  /\ AtHandler(r, "getUserById")
  /\ \/ \E id \in Params :
          LET user == getUserById(users, id)
          IN  IF user.kind = "error" THEN AnswerFor(r, id, 500, "Internal server error", TRUE)
              ELSE IF user.kind = "null" THEN AnswerFor(r, id, 404, "User not found", FALSE)
              ELSE AnswerFor(r, id, 200, "", FALSE)
     \/ ServerError(r)
  /\ UNCHANGED <<users, jwtSecret, deleted, afterDelete, roleVars>>

\* UserController.updateUser
UpdateUser(r) ==
  /\ AtHandler(r, "updateUser")
  /\ \/ \E id \in Params, body \in Bodies :
          IF id = BadId
            THEN AnswerFor(r, id, 500, "Internal server error", TRUE) /\ UNCHANGED users
          ELSE LET out == updateUser(users, id, body)
               IN  /\ users' = out.users
                   /\ IF out.result THEN AnswerFor(r, id, 200, "User updated successfully", FALSE)
                      ELSE AnswerFor(r, id, 404, "User not found", FALSE)
     \/ ServerError(r) /\ UNCHANGED users
  /\ UNCHANGED <<jwtSecret, deleted, afterDelete, roleVars>>

\* UserController.deleteUser
DeleteUser(r) ==
  /\ AtHandler(r, "deleteUser")
  /\ \/ \E id \in Params :
          IF id = BadId
            THEN AnswerFor(r, id, 500, "Internal server error", TRUE) /\ UNCHANGED <<users, deleted>>
          ELSE LET out == deleteUser(users, id)
               IN  /\ users' = out.users
                   /\ deleted' = IF out.result THEN deleted \cup {id} ELSE deleted
                   /\ IF out.result THEN AnswerFor(r, id, 200, "User deleted successfully", FALSE)
                      ELSE AnswerFor(r, id, 404, "User not found", FALSE)
     \/ ServerError(r) /\ UNCHANGED <<users, deleted>>
  /\ UNCHANGED <<jwtSecret, afterDelete, roleVars>>

Next ==
  \E r \in Slots :
    \/ Arrive(r)
    \/ StoreLookup(r)
    \/ AuthResume(r)
    \/ GetProfile(r)
    \/ UpdateProfile(r)
    \/ GetAllUsers(r)
    \/ GetUserById(r)
    \/ UpdateUser(r)
    \/ DeleteUser(r)
    \/ Release(r)

Spec == Init /\ [][Next]_vars

\* The same pipeline with one more request in flight.
InitConcurrent ==
  /\ \E r2 \in {"user", "moderator"} :
       users = [id \in UserIds |->
                  [email |-> EmailOf(id), username |-> UsernameOf(id),
                   role |-> IF id = "u1" THEN "admin" ELSE r2, isActive |-> TRUE,
                   password |-> StoredPassword]]
  /\ jwtSecret \in {Secret, NoSecret}
  /\ req = [r \in ConcurrentRequests |-> Idle]
  /\ deleted = {}
  /\ afterDelete = [r \in ConcurrentRequests |-> FALSE]
  /\ roles = <<>>
  /\ roleName = ""
  /\ answer = FALSE
  /\ gate = Idle
  /\ NoPermissionCall

SpecConcurrent == InitConcurrent /\ [][Next]_vars

\* ------------------------------------------------ roles of a TypeORM User
RoleNames == {"admin", "Admin", "user", "moderator"}
Role(name) == RoleEntity(name, TRUE, <<>>)

\* String.prototype.toLowerCase on the strings of the model
ToLowerCase(name) ==
  IF name = "Admin" THEN "admin"
  ELSE IF name = "A@X.io" THEN "a@x.io"
  ELSE name

\* User.hasRole: this.roles.some(role => role.name === roleName)
RECURSIVE hasRoleIgnoreCase(_, _)
hasRoleIgnoreCase(rs, name) ==
  IF rs = <<>> THEN FALSE
  ELSE IF ToLowerCase(Head(rs).name) = ToLowerCase(name) THEN TRUE
  ELSE hasRoleIgnoreCase(Tail(rs), name)
RECURSIVE hasRole(_, _)
hasRole(rs, name) ==
  IF rs = <<>> THEN FALSE
  ELSE IF Head(rs).name = name THEN TRUE
  ELSE hasRole(Tail(rs), name)

RoleLists == UNION {[1..n -> {Role(x) : x \in RoleNames}] : n \in 0..MaxRoles}

\* What req.user can be when adminMiddleware runs on its own.
ReqUsers ==
  {NoReqUser} \cup {[set |-> TRUE, id |-> "u1", email |-> EmailOf("u1"), role |-> x] : x \in RoleEnum}

InitRoles ==
  /\ users = [id \in UserIds |-> [email |-> EmailOf(id), username |-> UsernameOf(id),
                                     role |-> "user", isActive |-> TRUE,
                   password |-> StoredPassword]]
  /\ jwtSecret = Secret
  /\ req = [r \in Requests |-> Idle]
  /\ deleted = {}
  /\ afterDelete = [r \in Requests |-> FALSE]
  /\ roles \in RoleLists
  /\ roleName = ""
  /\ answer = FALSE
  /\ gate = Idle
  /\ NoPermissionCall

\* user.hasRole(name)
HasRoleCall ==
  /\ \E name \in RoleNames :
       /\ roleName' = name
       /\ answer' = hasRole(roles, name)
  /\ UNCHANGED <<pipelineVars, roles, gate, permissionVars, orm, call>>

\* adminMiddleware(req, res, next) on a request of an admin route whose
\* req.user is whatever the caller put there.
AdminGateCall ==
  /\ \E rt \in AdminRoutes, ru \in ReqUsers :
       gate' = Dispatch([Idle EXCEPT !.route = rt, !.pc = "run", !.reqUser = ru], 2, jwtSecret)
  /\ UNCHANGED <<pipelineVars, roles, roleName, answer, permissionVars, orm, call>>

NextRoles == HasRoleCall \/ AdminGateCall

SpecRoles == InitRoles /\ [][NextRoles]_vars

\* ------------------------------------------ permissions of a TypeORM User
\* Permission collections as the join table loads them: each Permission at
\* most once, in any order.
IdsOf(ps) == {ps[i].id : i \in DOMAIN ps}
DuplicateFree(ps) == \A i, j \in DOMAIN ps : ps[i].id = ps[j].id => i = j
PermissionLists ==
  {ps \in UNION {[1..n -> Permissions] : n \in 0..MaxPerms} : DuplicateFree(ps)}

\* Role.hasPermission / the inner some() of User.hasPermission
RECURSIVE somePermission(_, _)
somePermission(ps, name) ==
  IF ps = <<>> THEN FALSE
  ELSE IF Head(ps).name = name THEN TRUE
  ELSE somePermission(Tail(ps), name)

\* User.hasPermission: this.roles.some(role => role.permissions.some(...))
hasPermissionFirstRole(rs, name) ==
  IF rs = <<>> THEN FALSE
  ELSE somePermission(Head(rs).permissions, name)
RECURSIVE hasPermission(_, _)
hasPermission(rs, name) ==
  IF rs = <<>> THEN FALSE
  ELSE IF somePermission(Head(rs).permissions, name) THEN TRUE
  ELSE hasPermission(Tail(rs), name)

\* The roles of a loaded user: active or not, each with its permissions.
GrantingRoles ==
  {RoleEntity(n, a, ps) : n \in {"editor"}, a \in BOOLEAN, ps \in PermissionLists}
GrantingRoleLists == UNION {[1..n -> GrantingRoles] : n \in 0..MaxRoles}

\* Names asked for: each permission's name, and one no permission has.
AskedNames == {PermissionName(id) : id \in PermissionIds} \cup {"Users:Read"}

InitPermissions ==
  /\ users = [id \in UserIds |-> [email |-> EmailOf(id), username |-> UsernameOf(id),
                                     role |-> "user", isActive |-> TRUE,
                   password |-> StoredPassword]]
  /\ jwtSecret = Secret
  /\ req = [r \in Requests |-> Idle]
  /\ deleted = {}
  /\ afterDelete = [r \in Requests |-> FALSE]
  /\ roles \in GrantingRoleLists
  /\ roleName = ""
  /\ answer = FALSE
  /\ gate = Idle
  /\ NoPermissionCall

\* user.hasPermission(name)
HasPermissionCall ==
  /\ \E name \in AskedNames :
       /\ permissionName' = name
       /\ permitted' = hasPermission(roles, name)
  /\ UNCHANGED <<pipelineVars, roles, roleName, answer, gate, role, lastOp, orm, call>>

NextPermissions == HasPermissionCall

SpecPermissions == InitPermissions /\ [][NextPermissions]_vars

\* ------------------------------------------------- editing a Role entity
\* What a caller can pass to addPermission: a Permission record, or an object
\* that carries the id of one under another name.
PermissionArgs == Permissions \cup {[id |-> 1, name |-> "renamed"]}

\* Role.addPermission
addPermissionByName(rl, permission) ==
  LET ps == IF rl.defined THEN rl.permissions ELSE <<>>
  IN  [rl EXCEPT !.defined = TRUE,
                 !.permissions = IF \E i \in DOMAIN ps : ps[i].name = permission.name
                                   THEN ps ELSE Append(ps, permission)]
addPermission(rl, permission) ==
  LET ps == IF rl.defined THEN rl.permissions ELSE <<>>
  IN  [rl EXCEPT !.defined = TRUE,
                 !.permissions = IF \E i \in DOMAIN ps : ps[i].id = permission.id
                                   THEN ps ELSE Append(ps, permission)]

\* Role.removePermission: filter(p => p.id !== permissionId)
RECURSIVE filterOut(_, _)
filterOut(ps, id) ==
  IF ps = <<>> THEN <<>>
  ELSE IF Head(ps).id # id THEN <<Head(ps)>> \o filterOut(Tail(ps), id)
  ELSE filterOut(Tail(ps), id)
removePermission(rl, permissionId) ==
  IF rl.defined THEN [rl EXCEPT !.permissions = filterOut(rl.permissions, permissionId)]
  ELSE rl

\* The Role before the edits: loaded with its permissions, or new.
EditableRoles ==
  {RoleEntity(n, a, ps) : n \in {"user", "admin"}, a \in BOOLEAN, ps \in PermissionLists}
    \cup {[RoleEntity(n, a, <<>>) EXCEPT !.defined = FALSE] : n \in {"user", "admin"}, a \in BOOLEAN}

InitRoleEdit ==
  /\ users = [id \in UserIds |-> [email |-> EmailOf(id), username |-> UsernameOf(id),
                                     role |-> "user", isActive |-> TRUE,
                   password |-> StoredPassword]]
  /\ jwtSecret = Secret
  /\ req = [r \in Requests |-> Idle]
  /\ deleted = {}
  /\ afterDelete = [r \in Requests |-> FALSE]
  /\ roles = <<>>
  /\ roleName = ""
  /\ answer = FALSE
  /\ gate = Idle
  /\ permissionName = ""
  /\ permitted = FALSE
  /\ role \in EditableRoles
  /\ lastOp = NoOp
  /\ call = NoCall
  /\ orm = NoOrm

\* role.addPermission(permission)
AddPermission ==
  /\ \E permission \in PermissionArgs :
       /\ role' = addPermission(role, permission)
       /\ lastOp' = [kind |-> "add", id |-> permission.id, before |-> role]
  /\ UNCHANGED <<pipelineVars, roles, roleName, answer, gate, permissionName, permitted, orm, call>>

\* role.removePermission(permissionId)
RemovePermission ==
  /\ \E permissionId \in PermissionIds \cup {0} :
       /\ role' = removePermission(role, permissionId)
       /\ lastOp' = [kind |-> "remove", id |-> permissionId, before |-> role]
  /\ UNCHANGED <<pipelineVars, roles, roleName, answer, gate, permissionName, permitted, orm, call>>

NextRoleEdit == AddPermission \/ RemovePermission

SpecRoleEdit == InitRoleEdit /\ [][NextRoleEdit]_vars

\* ------------------------------------------- NestJS UserService on TypeORM
OrmUserIds == {"n1", "n2"}
OrmRoleIds == 1..MaxRoles

\* NestJS UserService.getUserById: findOne({where: {id}}), NotFoundException
\* when there is no such row.
ormGetUserById(db, id) == IF id \in db.users THEN id ELSE "NotFoundException"

\* NestJS UserService.deleteUser: repository.remove(user) deletes the users row
\* and the user_roles rows of that user; no relation is declared with cascade.
ormDeleteUserCascade(db, id) ==
  IF ormGetUserById(db, id) = "NotFoundException" THEN db
  ELSE LET mine == {ur[2] : ur \in {x \in db.user_roles : x[1] = id}}
       IN  [db EXCEPT !.users = @ \ {id},
                      !.user_roles = {ur \in @ : ur[1] # id /\ ur[2] \notin mine},
                      !.roles = @ \ mine,
                      !.role_permissions = {rp \in @ : rp[1] \notin mine}]
ormDeleteUser(db, id) ==
  IF ormGetUserById(db, id) = "NotFoundException" THEN db
  ELSE [db EXCEPT !.users = @ \ {id},
                  !.user_roles = {ur \in @ : ur[1] # id}]

InitOrm ==
  /\ users = [id \in UserIds |-> [email |-> EmailOf(id), username |-> UsernameOf(id),
                                     role |-> "user", isActive |-> TRUE,
                   password |-> StoredPassword]]
  /\ jwtSecret = Secret
  /\ req = [r \in Requests |-> Idle]
  /\ deleted = {}
  /\ afterDelete = [r \in Requests |-> FALSE]
  /\ roles = <<>>
  /\ roleName = ""
  /\ answer = FALSE
  /\ gate = Idle
  /\ permissionName = ""
  /\ permitted = FALSE
  /\ role = FreshRole
  /\ lastOp = NoOp
  /\ call = NoCall
  /\ \E ur \in SUBSET (OrmUserIds \X OrmRoleIds), rp \in SUBSET (OrmRoleIds \X PermissionIds) :
       orm = [users |-> OrmUserIds, roles |-> OrmRoleIds, permissions |-> PermissionIds,
              user_roles |-> ur, role_permissions |-> rp]

\* userService.deleteUser(id)
OrmDeleteUser ==
  /\ \E id \in OrmUserIds \cup {"n9"} : orm' = ormDeleteUser(orm, id)
  /\ UNCHANGED <<pipelineVars, roles, roleName, answer, gate, permissionVars, call>>

NextOrm == OrmDeleteUser

SpecOrm == InitOrm /\ [][NextOrm]_vars

\* ------------------------------------------------------------ POST /users
\* Bodies of POST /users: an email that is registered, the same in another
\* case, or a new one; a username that is taken or new; or a body that lacks
\* a required field.
PostEmails == {"a@x.io", "A@X.io", "c@x.io"}
PostUsernames == {"alice", "bob", "carol"}
PostBodies ==
  {[email |-> e, username |-> u, complete |-> TRUE] : e \in PostEmails, u \in PostUsernames}
    \cup {[email |-> "c@x.io", username |-> "", complete |-> FALSE]}

\* The _id of the next saved document.
NewId == "u3"

\* User.findOne({$or: [{email}, {username}]}): the filter is cast through the
\* schema (email: lowercase) and any one matching document may come back.
findOneMatches(store, body) ==
  {id \in DOMAIN store :
     store[id].email = ToLowerCase(body.email) \/ store[id].username = body.username}

\* createUser, lines 34-41: the found document is compared with the data as
\* given.
duplicateOf(store, existing, body) ==
  store[existing].email = body.email \/ store[existing].username = body.username

\* newUser.save(): the document is built through the schema (email lowercased,
\* role and isActive defaulted); the unique indexes on email and username
\* refuse a second document with the same value (E11000).
saveUserNoUnique(store, body) ==
  LET doc == [email |-> ToLowerCase(body.email), username |-> body.username,
              role |-> "user", isActive |-> TRUE, password |-> StoredPassword]
  IN  [users |-> [id \in DOMAIN store \cup {NewId} |-> IF id = NewId THEN doc ELSE store[id]],
       result |-> "saved"]
saveUser(store, body) ==
  LET doc == [email |-> ToLowerCase(body.email), username |-> body.username,
              role |-> "user", isActive |-> TRUE, password |-> StoredPassword]
  IN  IF \E id \in DOMAIN store :
           store[id].email = doc.email \/ store[id].username = doc.username
        THEN [users |-> store, result |-> "E11000"]
      ELSE [users |-> [id \in DOMAIN store \cup {NewId} |->
                         IF id = NewId THEN doc ELSE store[id]],
            result |-> "saved"]

\* error.code as UserController.createUser reads it.  The service rethrows a
\* ValidationError as it is and wraps every other error in a new Error, which
\* has no code.  The ValidationError class (utils/errors) is not among the
\* sources: whether it defines a code is left open.
DuplicateKey == 11000
NoCode == 0
ErrorCodes(outcome) == IF outcome = "ValidationError" THEN {NoCode, DuplicateKey} ELSE {NoCode}
\* The wrapped errors: `Failed to create user: ...` around a failed query and
\* around the E11000 of the unique index.
QueryFailed == "Error(query failed)"
DuplicateKeyError == "Error(E11000)"

\* UserController.createUser, the catch block
createUserCatch(rq, outcome, code) ==
  IF code = DuplicateKey
    THEN [Respond(rq, "createUser", 409, "User already exists", TRUE) EXCEPT !.outcome = outcome]
    ELSE [Respond(rq, "createUser", 500, "Internal server error", TRUE) EXCEPT !.outcome = outcome]

InitCreate ==
  /\ \E r2 \in {"user", "moderator"} :
       users = [id \in UserIds |->
                  [email |-> EmailOf(id), username |-> UsernameOf(id),
                   role |-> IF id = "u1" THEN "admin" ELSE r2, isActive |-> TRUE,
                   password |-> StoredPassword]]
  /\ jwtSecret = Secret
  /\ req = [r \in Requests |-> Idle]
  /\ deleted = {}
  /\ afterDelete = [r \in Requests |-> FALSE]
  /\ roles = <<>>
  /\ roleName = ""
  /\ answer = FALSE
  /\ gate = Idle
  /\ NoPermissionCall

\* POST /users comes in: validateUserInput, then UserController.createUser up
\* to the service's first await.  validateUserInput (middleware/validation) is
\* not among the sources: it lets a complete body through and may or may not
\* answer an incomplete one itself.
PostArrive(r) ==
  /\ req[r].pc = "idle"
  /\ \E body \in PostBodies :
       LET in == [Idle EXCEPT !.route = "POST /users", !.body = body,
                              !.log = <<"validateUserInput">>]
           at == [in EXCEPT !.log = Append(@, "createUser")]
       IN  IF body.complete
             THEN req' = [req EXCEPT ![r] = [at EXCEPT !.pc = "findOne"]]
             ELSE \/ req' = [req EXCEPT ![r] =
                               Respond(in, "validateUserInput", 400, "Validation failed", TRUE)]
                  \/ req' = [req EXCEPT ![r] =
                               Respond(at, "createUser", 400, "Missing required fields", TRUE)]
  /\ UNCHANGED <<users, jwtSecret, deleted, afterDelete, roleVars>>

\* The store answers createUser's findOne; the service throws ValidationError
\* or goes on to hash the password and save.
CreateFindOne(r) ==
  /\ req[r].pc = "findOne"
  /\ LET matches == findOneMatches(users, req[r].body)
     IN  \/ /\ matches = {}
            /\ req' = [req EXCEPT ![r].pc = "save"]
         \/ \E existing \in matches :
              IF duplicateOf(users, existing, req[r].body)
                THEN \E code \in ErrorCodes("ValidationError") :
                       req' = [req EXCEPT ![r] =
                                 createUserCatch([req[r] EXCEPT !.found = existing],
                                                 "ValidationError", code)]
                ELSE req' = [req EXCEPT ![r].pc = "save", ![r].found = existing]
         \/ \E code \in ErrorCodes(QueryFailed) :
              req' = [req EXCEPT ![r] = createUserCatch(req[r], QueryFailed, code)]
  /\ afterDelete' = [afterDelete EXCEPT ![r] = findOneMatches(users, req[r].body) \cap deleted # {}]
  /\ UNCHANGED <<users, jwtSecret, deleted, roleVars>>

\* newUser.save() completes and the controller answers.
CreateSave(r) ==
  /\ req[r].pc = "save"
  /\ LET out == saveUser(users, req[r].body)
     IN  IF out.result = "saved"
           THEN /\ users' = out.users
                /\ req' = [req EXCEPT ![r] =
                             [Respond(req[r], "createUser", 201, "User created successfully", FALSE)
                                EXCEPT !.outcome = "saved", !.param = NewId]]
           ELSE /\ UNCHANGED users
                /\ \E code \in ErrorCodes(DuplicateKeyError) :
                     req' = [req EXCEPT ![r] = createUserCatch(req[r], DuplicateKeyError, code)]
  /\ UNCHANGED <<jwtSecret, deleted, afterDelete, roleVars>>

\* ------------------------------------------------- PUT /users/:id, email/username
\* Update data that names an email or a username (and, in one case, a
\* password), and the ids PUT /users/:id is asked about.  Authentication of
\* the route is modelled in Spec; here the request starts at the controller.
UpdateData ==
  {[email |-> "A@X.io"], [email |-> "c@x.io"], [username |-> "alice"],
   [username |-> "carol"], [password |-> "pw"], [email |-> "c@x.io", password |-> "pw"]}
UpdateIds == {"u2", NewId}

\* updateUser, line 157: `if (updateData.email || updateData.username)`
namesEmailOrUsername(updateData) ==
  \/ "email" \in DOMAIN updateData /\ updateData.email # ""
  \/ "username" \in DOMAIN updateData /\ updateData.username # ""

\* User.findOne({_id: {$ne: id}, $or: [{email}?, {username}?]}), the filter
\* cast through the schema.
updateFindOneMatches(store, id, updateData) ==
  {x \in DOMAIN store \ {id} :
     \/ "email" \in DOMAIN updateData /\ store[x].email = ToLowerCase(updateData.email)
     \/ "username" \in DOMAIN updateData /\ store[x].username = updateData.username}

\* updateUser, lines 166-173: the found document against the data as given.
updateDuplicateOf(store, existing, updateData) ==
  \/ "email" \in DOMAIN updateData /\ store[existing].email = updateData.email
  \/ "username" \in DOMAIN updateData /\ store[existing].username = updateData.username

\* User.findByIdAndUpdate(id, {$set: data}, {new, runValidators}): the update
\* is cast through the schema (email lowercased), the unique indexes refuse a
\* value another document holds (E11000), an unknown id gives null.
findByIdAndUpdateNoUnique(store, id, data) ==
  LET cast(f) == IF f = "email" THEN ToLowerCase(data[f]) ELSE data[f]
      doc == [f \in DOMAIN store[id] |-> IF f \in DOMAIN data THEN cast(f) ELSE store[id][f]]
  IN  IF id \notin DOMAIN store THEN [users |-> store, result |-> "null"]
      ELSE [users |-> [store EXCEPT ![id] = doc], result |-> "updated"]
findByIdAndUpdate(store, id, data) ==
  LET cast(f) == IF f = "email" THEN ToLowerCase(data[f]) ELSE data[f]
      doc == [f \in DOMAIN store[id] |-> IF f \in DOMAIN data THEN cast(f) ELSE store[id][f]]
  IN  IF id \notin DOMAIN store THEN [users |-> store, result |-> "null"]
      ELSE IF \E x \in DOMAIN store \ {id} :
                store[x].email = doc.email \/ store[x].username = doc.username
        THEN [users |-> store, result |-> "E11000"]
      ELSE [users |-> [store EXCEPT ![id] = doc], result |-> "updated"]

\* UserController.updateUser, the catch block
updateUserCatch(rq, outcome) ==
  [Respond(rq, "updateUser", 500, "Internal server error", TRUE) EXCEPT !.outcome = outcome]

\* PUT /users/:id reaches UserController.updateUser, which calls the service;
\* the service runs up to its first await.
PutArrive(r) ==
  /\ req[r].pc = "idle"
  /\ \E id \in UpdateIds, updateData \in UpdateData :
       req' = [req EXCEPT ![r] =
                 [Idle EXCEPT !.route = "PUT /users/:id", !.param = id, !.data = updateData,
                              !.log = <<"updateUser">>,
                              !.pc = IF namesEmailOrUsername(updateData)
                                       THEN "updateFindOne" ELSE "update"]]
  /\ UNCHANGED <<users, jwtSecret, deleted, afterDelete, roleVars>>

\* The store answers updateUser's findOne.
UpdateFindOne(r) ==
  /\ req[r].pc = "updateFindOne"
  /\ LET matches == updateFindOneMatches(users, req[r].param, req[r].data)
     IN  \/ /\ matches = {}
            /\ req' = [req EXCEPT ![r].pc = "update"]
         \/ \E existing \in matches :
              IF updateDuplicateOf(users, existing, req[r].data)
                THEN req' = [req EXCEPT ![r] =
                               updateUserCatch([req[r] EXCEPT !.found = existing],
                                               "ValidationError")]
                ELSE req' = [req EXCEPT ![r].pc = "update", ![r].found = existing]
         \/ req' = [req EXCEPT ![r] = updateUserCatch(req[r], QueryFailed)]
  /\ UNCHANGED <<users, jwtSecret, deleted, afterDelete, roleVars>>

\* findByIdAndUpdate completes and the controller answers.
UpdateWrite(r) ==
  /\ req[r].pc = "update"
  /\ LET out == findByIdAndUpdate(users, req[r].param, safeUpdateData(req[r].data))
     IN  /\ users' = out.users
         /\ req' = [req EXCEPT ![r] =
                CASE out.result = "updated" ->
                       [Respond(req[r], "updateUser", 200, "User updated successfully", FALSE)
                          EXCEPT !.outcome = "updated"]
                  [] out.result = "null" ->
                       [Respond(req[r], "updateUser", 404, "User not found", FALSE)
                          EXCEPT !.outcome = "null"]
                  [] OTHER -> updateUserCatch(req[r], DuplicateKeyError)]
  /\ UNCHANGED <<jwtSecret, deleted, afterDelete, roleVars>>

\* userService.deleteUser(id), called for a stored user while other requests
\* are under way.
ServiceDeleteUser ==
  /\ \E id \in DOMAIN users :
       /\ users[id].isActive
       /\ users' = deleteUser(users, id).users
       /\ deleted' = deleted \cup {id}
  /\ UNCHANGED <<jwtSecret, req, afterDelete, roleVars>>

NextCreate ==
  \/ \E r \in Slots :
       \/ PostArrive(r)
       \/ CreateFindOne(r)
       \/ CreateSave(r)
       \/ PutArrive(r)
       \/ UpdateFindOne(r)
       \/ UpdateWrite(r)
       \/ Release(r)
  \/ ServiceDeleteUser

SpecCreate == InitCreate /\ [][NextCreate]_vars

\* The same calls with one more request slot, so that two lookups can both
\* come before either write.
InitCreateConcurrent ==
  /\ users = [id \in UserIds |->
                [email |-> EmailOf(id), username |-> UsernameOf(id),
                 role |-> IF id = "u1" THEN "admin" ELSE "user", isActive |-> TRUE,
                 password |-> StoredPassword]]
  /\ jwtSecret = Secret
  /\ req = [r \in ConcurrentRequests |-> Idle]
  /\ deleted = {}
  /\ afterDelete = [r \in ConcurrentRequests |-> FALSE]
  /\ roles = <<>>
  /\ roleName = ""
  /\ answer = FALSE
  /\ gate = Idle
  /\ NoPermissionCall

SpecCreateConcurrent == InitCreateConcurrent /\ [][NextCreate]_vars

\* ------------------------------------------------------ UserService, reads
\* createdAt (timestamps: true) orders the documents by creation.
CreatedAt(id) == CASE id = "u1" -> 1 [] id = "u2" -> 2 [] OTHER -> 3

\* Options of getAllUsers as UserController.getAllUsers builds them:
\* parseInt(req.query.page) || 1 and parseInt(req.query.limit) || 10 are never
\* 0 but are negative when the query string is; search and role are strings
\* or absent ("" here).
Pages == {-1, 1, 2}
Limits == {-1, 1, 2}
Searches == {"", "ALI", "x.io"}
RoleFilters == {"", "user", "admin"}
Options == [page : Pages, limit : Limits, search : Searches, role : RoleFilters]

\* {$regex: search, $options: 'i'} on username or email (firstName and
\* lastName are not part of the modelled documents).
regexMatches(doc, search) ==
  CASE search = "ALI" -> doc.username = "alice"
    [] search = "x.io" -> doc.email \in {"a@x.io", "b@x.io", "c@x.io"}
    [] OTHER -> FALSE

\* The query object getAllUsers builds, applied to one document.
query(doc, options) ==
  /\ doc.isActive
  /\ options.search # "" => regexMatches(doc, options.search)
  /\ options.role # "" => doc.role = options.role

\* .sort({createdAt: -1})
sortNewestFirst(ids) ==
  CHOOSE s \in [1..Cardinality(ids) -> ids] :
    \A i \in DOMAIN s : \A j \in DOMAIN s : i < j => CreatedAt(s[i]) > CreatedAt(s[j])

\* Math.ceil(total / limit), limit # 0
ceil(total, limit) ==
  IF limit > 0 THEN (total + limit - 1) \div limit ELSE -(total \div (-limit))

\* UserService.getAllUsers.  The store refuses a negative skip (the query
\* throws and the service rethrows); a negative limit is sent as its absolute
\* value.
getAllUsers(store, options) ==
  LET skip == (options.page - 1) * options.limit
      found == sortNewestFirst({id \in DOMAIN store : query(store[id], options)})
      total == Cardinality({id \in DOMAIN store : query(store[id], options)})
      limit == IF options.limit < 0 THEN -options.limit ELSE options.limit
      last == IF skip + limit < Len(found) THEN skip + limit ELSE Len(found)
  IN  IF skip < 0 THEN [kind |-> "error"]
      ELSE [kind |-> "result", users |-> SubSeq(found, skip + 1, last), total |-> total,
            page |-> options.page, limit |-> options.limit,
            pages |-> ceil(total, options.limit)]

\* UserService.getUserByEmail: User.findOne({email, isActive: true}), the
\* filter cast through the schema.
getUserByEmailAnyone(store, email) ==
  IF \E id \in DOMAIN store : store[id].email = ToLowerCase(email)
    THEN Doc(store, CHOOSE id \in DOMAIN store : store[id].email = ToLowerCase(email))
    ELSE NullUser
getUserByEmail(store, email) ==
  IF \E id \in DOMAIN store : store[id].email = ToLowerCase(email) /\ store[id].isActive
    THEN Doc(store, CHOOSE id \in DOMAIN store :
                      store[id].email = ToLowerCase(email) /\ store[id].isActive)
    ELSE NullUser

\* UserService.getUserByUsername: User.findOne({username, isActive: true})
getUserByUsername(store, username) ==
  IF \E id \in DOMAIN store : store[id].username = username /\ store[id].isActive
    THEN Doc(store, CHOOSE id \in DOMAIN store :
                      store[id].username = username /\ store[id].isActive)
    ELSE NullUser

\* What UserController.getUserById and UserController.updateUser answer for
\* what the service returned.
statusFor(found) == IF found THEN 200 ELSE 404

InitService ==
  /\ \E r2 \in {"user", "moderator"} :
       users = [id \in UserIds \cup {NewId} |->
                  [email |-> IF id = NewId THEN "c@x.io" ELSE EmailOf(id),
                   username |-> IF id = NewId THEN "carol" ELSE UsernameOf(id),
                   role |-> IF id = "u1" THEN "admin" ELSE IF id = "u2" THEN r2 ELSE "user",
                   isActive |-> TRUE,
                   password |-> StoredPassword]]
  /\ jwtSecret = Secret
  /\ req = [r \in Requests |-> Idle]
  /\ deleted = {}
  /\ afterDelete = [r \in Requests |-> FALSE]
  /\ roles = <<>>
  /\ roleName = ""
  /\ answer = FALSE
  /\ gate = Idle
  /\ NoPermissionCall

serviceFrame ==
  <<users, jwtSecret, req, deleted, afterDelete, roles, roleName, answer, gate,
    permissionVars, orm>>

\* userService.getAllUsers(options)
GetAllUsersCall ==
  /\ \E options \in Options :
       call' = [op |-> "getAllUsers", options |-> options, result |-> getAllUsers(users, options)]
  /\ UNCHANGED serviceFrame

\* userService.getUserByEmail(email)
GetUserByEmailCall ==
  /\ \E email \in PostEmails \cup {"b@x.io"} :
       call' = [op |-> "getUserByEmail", arg |-> email, result |-> getUserByEmail(users, email)]
  /\ UNCHANGED serviceFrame

\* userService.getUserByUsername(username)
GetUserByUsernameCall ==
  /\ \E username \in PostUsernames :
       call' = [op |-> "getUserByUsername", arg |-> username,
                result |-> getUserByUsername(users, username)]
  /\ UNCHANGED serviceFrame

\* userService.getUserById(id), as UserController.getUserById calls it
GetUserByIdCall ==
  /\ \E id \in DOMAIN users \cup {MissingId} :
       call' = [op |-> "getUserById", arg |-> id, result |-> getUserById(users, id),
                status |-> statusFor(getUserById(users, id).kind = "doc")]
  /\ UNCHANGED serviceFrame

\* userService.updateUser(id, updateData), as UserController.updateUser calls it
UpdateUserCall ==
  /\ \E id \in DOMAIN users \cup {MissingId}, updateData \in Bodies :
       /\ users' = updateUser(users, id, updateData).users
       /\ call' = [op |-> "updateUser", arg |-> id, data |-> updateData,
                   result |-> getUserById(updateUser(users, id, updateData).users, id),
                   status |-> statusFor(updateUser(users, id, updateData).result)]
  /\ UNCHANGED <<jwtSecret, req, deleted, afterDelete, roles, roleName, answer, gate,
                 permissionVars, orm>>

NextService ==
  \/ ServiceDeleteUser
  \/ GetAllUsersCall
  \/ GetUserByEmailCall
  \/ GetUserByUsernameCall
  \/ GetUserByIdCall
  \/ UpdateUserCall

SpecService == InitService /\ [][NextService]_vars

\* ---------------------------------------------------------- response bodies
\* bcrypt.hash(password, rounds)
hash(password) == "bcrypt(" \o password \o ")"

\* A Mongoose document with all its paths, as save() and the queries load it.
mongoDocument(store, id) ==
  [f \in DOMAIN store[id] \cup {"_id"} |-> IF f = "_id" THEN id ELSE store[id][f]]
\* .select('-password')
select(doc) == [f \in DOMAIN doc \ {"password"} |-> doc[f]]
\* userSchema's toJSON transform, which res.json applies to a document
toJSONNoTransform(doc) == doc
toJSON(doc) == [f \in DOMAIN doc \ {"password"} |-> doc[f]]
\* res.status(status).json({success, data, errors}) of the Express handlers;
\* data is the set of documents in the body.
resJson(op, status, data, errors) ==
  [op |-> op, stack |-> "express", status |-> status,
   data |-> {toJSON(d) : d \in data}, errors |-> errors]

\* The TypeORM users rows of the NestJS stack and its request bodies.
NestEmails == {"n1@x.io", "n2@x.io"}
CreateUserDtos == [email : NestEmails, password : {"pw"}, name : {"N"}]
UpdateUserDtos == {[name |-> "M"], [password |-> "pw2"], [email |-> "n2@x.io"]}
\* NestJS UserController.sanitizeUser
sanitizeUser(user) == [f \in DOMAIN user \ {"passwordHash"} |-> user[f]]
\* response.status(status).json({success, data}) or the HttpException's body
nestJson(op, status, data, errors) ==
  [op |-> op, stack |-> "nestjs", status |-> status, data |-> data, errors |-> errors]

InitResponses ==
  /\ \E r2 \in {"user", "moderator"} :
       users = [id \in UserIds |->
                  [email |-> EmailOf(id), username |-> UsernameOf(id),
                   role |-> IF id = "u1" THEN "admin" ELSE r2, isActive |-> TRUE,
                   password |-> StoredPassword]]
  /\ jwtSecret = Secret
  /\ req = [r \in Requests |-> Idle]
  /\ deleted = {}
  /\ afterDelete = [r \in Requests |-> FALSE]
  /\ roles = <<>>
  /\ roleName = ""
  /\ answer = FALSE
  /\ gate = Idle
  /\ permissionName = ""
  /\ permitted = FALSE
  /\ role = FreshRole
  /\ lastOp = NoOp
  /\ call = NoCall
  /\ orm = [users |-> {"n1"}, roles |-> {}, permissions |-> {}, user_roles |-> {},
            role_permissions |-> {},
            rows |-> [id \in {"n1"} |->
                        [id |-> id, email |-> "n1@x.io", passwordHash |-> hash("secret"),
                         name |-> "N"]]]

expressFrame ==
  <<jwtSecret, req, deleted, afterDelete, roles, roleName, answer, gate, permissionVars, orm>>
nestFrame ==
  <<users, jwtSecret, req, deleted, afterDelete, roles, roleName, answer, gate, permissionVars>>

\* Express POST /users: UserController.createUser around UserService.createUser
ExpressCreateUser ==
  /\ \E body \in {b \in PostBodies : b.complete} :
       \/ \E existing \in findOneMatches(users, body) :
            /\ duplicateOf(users, existing, body)
            /\ \E code \in ErrorCodes("ValidationError") :
                 call' = resJson("POST /users", IF code = DuplicateKey THEN 409 ELSE 500,
                                 {}, {"ValidationError"})
            /\ UNCHANGED users
       \/ /\ \/ findOneMatches(users, body) = {}
             \/ \E existing \in findOneMatches(users, body) : ~duplicateOf(users, existing, body)
          /\ users' = saveUser(users, body).users
          /\ call' = IF saveUser(users, body).result = "saved"
                       THEN resJson("POST /users", 201,
                                    {mongoDocument(saveUser(users, body).users, NewId)}, {})
                       ELSE resJson("POST /users", 500, {}, {DuplicateKeyError})
  /\ UNCHANGED expressFrame

\* Express GET /users/:id and GET /users/profile
ExpressGetUser ==
  /\ \E id \in DOMAIN users \cup {MissingId}, op \in {"GET /users/:id", "GET /users/profile"} :
       call' = IF id \in DOMAIN users
                 THEN resJson(op, 200, {select(mongoDocument(users, id))}, {})
                 ELSE resJson(op, 404, {}, {})
  /\ UNCHANGED <<users, expressFrame>>

\* Express PUT /users/:id and PUT /users/profile
ExpressUpdateUser ==
  /\ \E id \in DOMAIN users \cup {MissingId}, updateData \in Bodies,
         op \in {"PUT /users/:id", "PUT /users/profile"} :
       /\ users' = updateUser(users, id, updateData).users
       /\ call' = IF updateUser(users, id, updateData).result
                     THEN resJson(op, 200,
                            {select(mongoDocument(updateUser(users, id, updateData).users, id))}, {})
                     ELSE resJson(op, 404, {}, {})
  /\ UNCHANGED expressFrame

\* Express GET /users
ExpressGetAllUsers ==
  /\ \E options \in {o \in Options : o.page = 1 /\ o.limit = 2} :
       LET result == getAllUsers(users, options)
       IN  call' = resJson("GET /users", 200,
                           {select(mongoDocument(users, result.users[i])) :
                              i \in DOMAIN result.users}, {})
  /\ UNCHANGED <<users, expressFrame>>

\* NestJS POST /api/users: createUser of controller and service
NestCreateUser ==
  /\ \E userData \in CreateUserDtos :
       IF \E id \in DOMAIN orm.rows : orm.rows[id].email = userData.email
         THEN /\ call' = nestJson("POST /api/users", 400, {}, {"User already exists"})
              /\ UNCHANGED orm
         ELSE LET id == CHOOSE x \in OrmUserIds : x \notin DOMAIN orm.rows
                  user == [id |-> id, email |-> userData.email,
                           passwordHash |-> hash(userData.password), name |-> userData.name]
              IN  /\ orm' = [orm EXCEPT !.users = @ \cup {id},
                                        !.rows = [x \in DOMAIN @ \cup {id} |->
                                                    IF x = id THEN user ELSE @[x]]]
                  /\ call' = nestJson("POST /api/users", 201, {sanitizeUser(user)}, {})
  /\ UNCHANGED nestFrame

\* NestJS GET /api/users/:id
NestGetUser ==
  /\ \E id \in OrmUserIds :
       call' = IF ormGetUserById(orm, id) = "NotFoundException"
                 THEN nestJson("GET /api/users/:id", 404, {}, {"User not found"})
                 ELSE nestJson("GET /api/users/:id", 200, {sanitizeUser(orm.rows[id])}, {})
  /\ UNCHANGED <<orm, nestFrame>>

\* NestJS PUT /api/users/:id.  The email lookup's where clause uses {$ne: id},
\* which the repository may refuse.
NestUpdateUser ==
  /\ \E id \in OrmUserIds, userData \in UpdateUserDtos :
       IF ormGetUserById(orm, id) = "NotFoundException"
         THEN /\ call' = nestJson("PUT /api/users/:id", 400, {}, {"User not found"})
              /\ UNCHANGED orm
       ELSE IF "email" \in DOMAIN userData
               /\ \E x \in DOMAIN orm.rows \ {id} : orm.rows[x].email = userData.email
         THEN /\ call' = nestJson("PUT /api/users/:id", 400, {}, {"Email already in use"})
              /\ UNCHANGED orm
       ELSE \/ /\ "email" \in DOMAIN userData
               /\ call' = nestJson("PUT /api/users/:id", 400, {}, {QueryFailed})
               /\ UNCHANGED orm
            \/ LET user == [f \in DOMAIN orm.rows[id] |->
                              IF f = "passwordHash" /\ "password" \in DOMAIN userData
                                THEN hash(userData.password)
                              ELSE IF f \in DOMAIN userData THEN userData[f]
                              ELSE orm.rows[id][f]]
               IN  /\ orm' = [orm EXCEPT !.rows[id] = user]
                   /\ call' = nestJson("PUT /api/users/:id", 200, {sanitizeUser(user)}, {})
  /\ UNCHANGED nestFrame

NextResponses ==
  \/ ExpressCreateUser
  \/ ExpressGetUser
  \/ ExpressUpdateUser
  \/ ExpressGetAllUsers
  \/ NestCreateUser
  \/ NestGetUser
  \/ NestUpdateUser

SpecResponses == InitResponses /\ [][NextResponses]_vars

\* ================================================================ claims
InLog(rq, e) == \E i \in DOMAIN rq.log : rq.log[i] = e
Count(rq, e) == Cardinality({i \in DOMAIN rq.log : rq.log[i] = e})
Pos(rq, e) == CHOOSE i \in DOMAIN rq.log : rq.log[i] = e
Inactive(u) == u.kind = "doc" /\ ~u.isActive
Decided(rq) == rq.pc \in {"handler", "done"}
\* no Authorization header, or nothing after 'Bearer '
NoTokenSupplied(t) == t = Undefined \/ t = EmptyString

\* C1: a request whose token verified and whose looked-up record has
\* isActive = false is answered 401 by authMiddleware, with req.user unset
\* and without next().
C1_InactiveRejected ==
  \A r \in Slots :
    Inactive(req[r].user) =>
      /\ ~req[r].reqUser.set
      /\ ~InLog(req[r], "authMiddleware.next")
      /\ \/ req[r].pc = "resume"
         \/ /\ req[r].pc = "done"
            /\ req[r].res.status = 401
            /\ req[r].log[Len(req[r].log)] = "authMiddleware.json"
C1_Witness ==
  \E r \in Slots :
    /\ Inactive(req[r].user)
    /\ jwtVerify(req[r].token, jwtSecret)
    /\ req[r].pc = "done"
    /\ req[r].res.status = 401

\* C2 (as claimed): once deleteUser(id) has completed, a request whose store
\* lookup comes afterwards with a token of that id is answered 401 and never
\* reaches a handler.
C2_DeletedStaysRejected ==
  \A r \in Slots :
    afterDelete[r] =>
      /\ req[r].pc \in {"resume", "done"}
      /\ req[r].pc = "done" => req[r].res.status = 401
      /\ \A h \in Handlers : ~InLog(req[r], h)

\* C3: a request without a token is answered 401, success = false, before
\* any store lookup, and neither adminMiddleware nor a handler runs for it.
C3_NoTokenRejected ==
  \A r \in Slots :
    (req[r].pc # "idle" /\ NoTokenSupplied(req[r].token)) =>
      /\ req[r].pc = "done"
      /\ req[r].res = Json(401, "Access denied. No token provided.", FALSE)
      /\ ~req[r].res.success
      /\ req[r].user = NoUser
      /\ req[r].log = <<"authMiddleware", "authMiddleware.json">>
C3_Witness ==
  \E r \in Slots :
    /\ req[r].pc = "done"
    /\ req[r].token = EmptyString
    /\ req[r].route \in AdminRoutes
    /\ req[r].res.status = 401

\* C4: a token that fails verification against the configured secret (other
\* secret, expired, malformed) is answered 401 'Invalid token.' with no store
\* lookup, req.user unset and no next().
FailsVerification(t) == t.kind # "jwt" \/ t.expired \/ t.key # jwtSecret
C4_InvalidTokenRejected ==
  \A r \in Slots :
    (req[r].pc # "idle" /\ ~NoTokenSupplied(req[r].token) /\ FailsVerification(req[r].token)) =>
      /\ req[r].pc = "done"
      /\ req[r].res.status = 401
      /\ req[r].res.message = "Invalid token."
      /\ ~InLog(req[r], "userService.getUserById")
      /\ req[r].user = NoUser
      /\ ~req[r].reqUser.set
      /\ ~InLog(req[r], "authMiddleware.next")
C4_Witness ==
  /\ jwtSecret = Secret
  /\ \E r \in Slots :
       /\ req[r].pc = "done"
       /\ req[r].token = Jwt("u1", OtherSecret, FALSE)
       /\ req[r].res.status = 401
       /\ req[r].res.message = "Invalid token."

\* C5: authentication fails closed: req.user is set only from an active
\* looked-up record, authMiddleware has called next() iff req.user is set, and
\* a lookup that threw, returned null or returned an inactive record ends in
\* 401 with nothing of the identity on the request.
C5_FailsClosed ==
  \A r \in Slots :
    /\ req[r].reqUser.set =>
         /\ req[r].user.kind = "doc"
         /\ req[r].user.isActive
         /\ req[r].reqUser =
              [set |-> TRUE, id |-> req[r].user.id, email |-> req[r].user.email,
               role |-> req[r].user.role]
    /\ InLog(req[r], "authMiddleware.next") <=> req[r].reqUser.set
    /\ (req[r].pc # "resume" /\ (req[r].user.kind \in {"error", "null"} \/ Inactive(req[r].user))) =>
         /\ req[r].pc = "done"
         /\ req[r].res.status = 401
         /\ req[r].reqUser = NoReqUser
C5_Witness ==
  \E r \in Slots :
    /\ jwtVerify(req[r].token, jwtSecret)
    /\ req[r].pc = "done"
    /\ req[r].user.kind = "error"
    /\ req[r].res.status = 401
    /\ ~req[r].reqUser.set

\* C6: adminMiddleware answers 401 without next() when req.user is absent,
\* 403 without next() when the role is neither 'admin' nor 'moderator', and
\* otherwise calls next() and writes nothing; 'admin' passes, 'user' does not.
GateRan == gate.pc # "idle"
C6_AdminGate ==
  GateRan =>
    /\ ~gate.reqUser.set =>
         /\ gate.res.status = 401
         /\ gate.pc = "done"
         /\ ~InLog(gate, "adminMiddleware.next")
    /\ (gate.reqUser.set /\ gate.reqUser.role \notin {"admin", "moderator"}) =>
         /\ gate.res.status = 403
         /\ gate.pc = "done"
         /\ ~InLog(gate, "adminMiddleware.next")
    /\ (gate.reqUser.set /\ gate.reqUser.role \in {"admin", "moderator"}) =>
         /\ gate.res = NoRes
         /\ gate.pc = "handler"
         /\ Count(gate, "adminMiddleware.next") = 1
         /\ ~InLog(gate, "adminMiddleware.json")
    /\ (gate.reqUser.set /\ gate.reqUser.role = "user") => gate.res.status = 403
    /\ (gate.reqUser.set /\ gate.reqUser.role = "admin") => gate.pc = "handler"
C6_Witness ==
  /\ GateRan
  /\ gate.reqUser.set
  /\ gate.reqUser.role = "moderator"
  /\ gate.pc = "handler"

\* C7: on an admin route the handler runs only after authMiddleware's next()
\* and then adminMiddleware's next(), in that order, in the same request; on
\* a profile route only after authMiddleware's next().
C7_ChainOrder ==
  \A r \in Slots : \A h \in Handlers :
    InLog(req[r], h) =>
      /\ InLog(req[r], "authMiddleware.next")
      /\ Pos(req[r], "authMiddleware.next") < Pos(req[r], h)
      /\ req[r].route \in AdminRoutes =>
           /\ InLog(req[r], "adminMiddleware.next")
           /\ Pos(req[r], "authMiddleware.next") < Pos(req[r], "adminMiddleware")
           /\ Pos(req[r], "adminMiddleware.next") < Pos(req[r], h)
C7_Witness ==
  \E r \in Slots :
    /\ req[r].route = "PUT /users/:id"
    /\ InLog(req[r], "adminMiddleware.next")
    /\ InLog(req[r], "updateUser")

\* C8: a request ends in exactly one of: handler reached, 401, 403.  Each
\* middleware runs at most once per request and, once it has finished, has
\* either written one response or called next() once, never both or neither.
Middlewares == {"authMiddleware", "adminMiddleware"}
Finished(rq, m) ==
  InLog(rq, m) /\ ~(m = "authMiddleware" /\ rq.pc \in {"lookup", "resume"})
C8_OneOutcome ==
  \A r \in Slots :
    /\ \A m \in Middlewares :
         /\ Count(req[r], m) <= 1
         /\ Finished(req[r], m) =>
              Count(req[r], m \o ".json") + Count(req[r], m \o ".next") = 1
         /\ ~InLog(req[r], m) =>
              Count(req[r], m \o ".json") + Count(req[r], m \o ".next") = 0
    /\ Count(req[r], "userService.getUserById") <= 1
    /\ \A h \in Handlers : Count(req[r], h) <= 1
    /\ req[r].pc = "done" =>
         \/ \E h \in Handlers : InLog(req[r], h)
         \/ /\ req[r].res.status \in {401, 403}
            /\ \E m \in Middlewares : req[r].log[Len(req[r].log)] = m \o ".json"
    /\ req[r].pc # "done" => req[r].res = NoRes
    /\ (\E h \in Handlers : InLog(req[r], h)) =>
         \A m \in Middlewares : ~InLog(req[r], m \o ".json")
C8_Witness ==
  \E r \in Slots :
    /\ req[r].pc = "done"
    /\ InLog(req[r], "authMiddleware.next")
    /\ InLog(req[r], "adminMiddleware")
    /\ req[r].res.status = 403

\* C9: what authMiddleware decides for a request depends only on its token,
\* the secret and what the store returned to its own lookup: two requests
\* with the same token and the same lookup result are decided alike, and the
\* identity on a request is the one resolved for its own token.
AuthOutcome(rq) ==
  IF InLog(rq, "authMiddleware.next") THEN [next |-> TRUE, reqUser |-> rq.reqUser, res |-> NoRes]
  ELSE [next |-> FALSE, reqUser |-> rq.reqUser, res |-> rq.res]
C9_Isolation ==
  /\ \A r, q \in Slots :
       (Decided(req[r]) /\ Decided(req[q]) /\ req[r].token = req[q].token
          /\ req[r].user = req[q].user) =>
         AuthOutcome(req[r]) = AuthOutcome(req[q])
  /\ \A r \in Slots :
       req[r].reqUser.set =>
         /\ req[r].reqUser.id = req[r].token.id
         /\ req[r].reqUser.role = req[r].user.role
         /\ req[r].user.id = req[r].token.id
C9_Witness ==
  \E r, q \in Slots :
    /\ r # q
    /\ req[r].reqUser.set /\ req[q].reqUser.set
    /\ req[r].reqUser.id # req[q].reqUser.id
    /\ req[r].pc = "handler" /\ req[q].pc = "handler"

\* C10: User.hasRole(name) is true iff some attached role is named exactly
\* name; hasRole('admin') is false when the only role is 'Admin'.
Called == roleName # ""
C10_HasRoleExact ==
  Called =>
    /\ answer <=> (\E i \in DOMAIN roles : roles[i].name = roleName)
    /\ (roleName = "admin" /\ roles = <<Role("Admin")>>) => ~answer
C10_Witness ==
  /\ Called
  /\ roleName = "admin"
  /\ roles = <<Role("Admin")>>
  /\ ~answer

\* C11: User.hasPermission(p) is true iff p is the name of a permission in the
\* union of the permission collections of all roles attached to the user.
Asked == permissionName # ""
PermissionNamesOf(rs) ==
  UNION {{rs[i].permissions[j].name : j \in DOMAIN rs[i].permissions} : i \in DOMAIN rs}
C11_HasPermissionUnion ==
  Asked => (permitted <=> permissionName \in PermissionNamesOf(roles))
C11_Witness ==
  /\ Asked
  /\ Len(roles) = 2
  /\ permissionName \notin PermissionNamesOf(<<roles[1]>>)
  /\ permissionName \in PermissionNamesOf(<<roles[2]>>)
  /\ permitted

\* C12 (as claimed): hasPermission answers from the permissions of the active
\* roles only; a permission granted solely through a role with
\* isActive = false is not granted.
ActiveRoles(rs) == SelectSeq(rs, LAMBDA rl : rl.isActive)
C12_ActiveRolesOnly ==
  Asked => (permitted <=> permissionName \in PermissionNamesOf(ActiveRoles(roles)))

\* C13: addPermission and removePermission are idempotent by permission id:
\* adding an id the role already has and removing an id it does not have
\* leave the collection as it was, and no two permissions of the role ever
\* share an id.
Edited == lastOp.kind # "none"
Had(id) == lastOp.before.defined /\ id \in IdsOf(lastOp.before.permissions)
C13_EditsIdempotent ==
  /\ DuplicateFree(role.permissions)
  /\ (lastOp.kind = "add" /\ Had(lastOp.id)) => role = lastOp.before
  /\ (lastOp.kind = "remove" /\ ~Had(lastOp.id)) => role = lastOp.before
  /\ (lastOp.kind = "add" /\ ~Had(lastOp.id)) =>
       /\ role.defined
       /\ Len(role.permissions) = Len(lastOp.before.permissions) + 1
       /\ lastOp.id \in IdsOf(role.permissions)
  /\ (lastOp.kind = "remove" /\ Had(lastOp.id)) =>
       /\ lastOp.id \notin IdsOf(role.permissions)
       /\ Len(role.permissions) = Len(lastOp.before.permissions) - 1
  /\ Edited => (role.name = lastOp.before.name /\ role.isActive = lastOp.before.isActive)
C13_Witness ==
  /\ lastOp.kind = "add"
  /\ Had(lastOp.id)
  /\ Len(role.permissions) = 2
  /\ role = lastOp.before
  /\ \E i \in DOMAIN role.permissions : role.permissions[i] = [id |-> 1, name |-> "renamed"]

\* C14 (as claimed): authMiddleware performs exactly one store lookup
\* (getUserById) for every request.
Lookups(rq) == Count(rq, "userService.getUserById")
AuthFinished(rq) == Finished(rq, "authMiddleware")
C14_ExactlyOneLookup ==
  \A r \in Slots : AuthFinished(req[r]) => Lookups(req[r]) = 1
\* C14 (amended): authMiddleware performs at most one store lookup per
\* request: exactly one when the token passed verification, none when the
\* request was rejected before that.
Verified(rq) == ~NoTokenSupplied(rq.token) /\ ~FailsVerification(rq.token)
C14_AtMostOneLookup ==
  \A r \in Slots :
    /\ Lookups(req[r]) <= 1
    /\ InLog(req[r], "authMiddleware") =>
         (Lookups(req[r]) = 1 <=> Verified(req[r]))
    /\ req[r].user # NoUser => Lookups(req[r]) = 1
C14_Witness ==
  \E r \in Slots :
    /\ req[r].pc = "handler"
    /\ Verified(req[r])
    /\ Lookups(req[r]) = 1

\* C15: with no JWT secret configured requests are still taken, and each is
\* answered 401 without a store lookup or a handler: 'No token provided' when
\* it carries no token (decided before the secret is looked at), 'Invalid
\* token.' when it carries one.
C15_MissingSecretPerRequest ==
  jwtSecret = NoSecret =>
    \A r \in Slots :
      req[r].pc # "idle" =>
        /\ req[r].pc = "done"
        /\ req[r].res.status = 401
        /\ Lookups(req[r]) = 0
        /\ req[r].user = NoUser
        /\ \A h \in Handlers : ~InLog(req[r], h)
        /\ NoTokenSupplied(req[r].token) =>
             req[r].res.message = "Access denied. No token provided."
        /\ ~NoTokenSupplied(req[r].token) => req[r].res.message = "Invalid token."
C15_Witness ==
  /\ jwtSecret = NoSecret
  /\ \E r \in Slots :
       /\ req[r].pc = "done"
       /\ req[r].token = Jwt("u1", Secret, FALSE)
       /\ req[r].res.status = 401

\* C16 (as claimed): no rejection written by authMiddleware or adminMiddleware
\* carries the text of an internal exception.
RejectedBy(rq, m) == rq.pc = "done" /\ rq.log[Len(rq.log)] = m \o ".json"
C16_NoExceptionText ==
  \A r \in Slots : \A m \in Middlewares :
    RejectedBy(req[r], m) => ~req[r].res.errors

\* C17: UserService.deleteUser is a soft delete: for an existing id it sets
\* isActive to false and nothing else, the record stays (still found by id)
\* and the call returns true (200); for an id without a record it returns
\* false (404) and changes nothing.  No operation removes a user record.
DeleteAnswered(r) == AtHandler(r, "deleteUser") /\ req'[r].pc = "done"
RolesOfUser(db, id) == {ur[2] : ur \in {x \in db.user_roles : x[1] = id}}
C18_DeleteKeepsRoles ==
  [][/\ orm'.roles = orm.roles
     /\ orm'.permissions = orm.permissions
     /\ orm'.role_permissions = orm.role_permissions
     /\ \A id \in orm'.users : RolesOfUser(orm', id) = RolesOfUser(orm, id)]_vars
C18_Witness ==
  /\ orm.users = {"n2"}
  /\ orm.roles = OrmRoleIds
  /\ RolesOfUser(orm, "n2") = {1}
  /\ <<1, 1>> \in orm.role_permissions

\* C19 (as claimed): createUser rejects with ValidationError and stores
\* nothing when a user with the same email or the same username exists, and
\* no two stored users share an email or a username.
CreateEnded(rq) == rq.pc = "done" /\ rq.outcome \notin {"", QueryFailed}
OthersOf(rq) == DOMAIN users \ {rq.param}
SameEmailExists(rq) == \E id \in OthersOf(rq) : users[id].email = rq.body.email
SameUsernameExists(rq) == \E id \in OthersOf(rq) : users[id].username = rq.body.username
UniqueUsers ==
  \A i, j \in DOMAIN users :
    (users[i].email = users[j].email \/ users[i].username = users[j].username) => i = j
C19_DuplicateRejected ==
  /\ UniqueUsers
  /\ \A r \in Slots :
       (CreateEnded(req[r]) /\ (SameEmailExists(req[r]) \/ SameUsernameExists(req[r]))) =>
         /\ req[r].outcome = "ValidationError"
         /\ req[r].param = ""

\* C20 (as claimed): POST /users with an email that is already registered is
\* answered 409, success = false, 'User already exists'.
EmailRegistered(rq) == \E id \in OthersOf(rq) : users[id].email = ToLowerCase(rq.body.email)
C20_DuplicateEmail409 ==
  \A r \in Slots :
    (CreateEnded(req[r]) /\ EmailRegistered(req[r])) =>
      /\ req[r].res.status = 409
      /\ ~req[r].res.success
      /\ req[r].res.message = "User already exists"

\* C24 (as claimed): no request on a profile route changes a user's role, so
\* an identity whose role is 'user' never comes to pass the admin gate through
\* PUT /users/profile.
ProfileAnswered(r) == req[r].pc = "handler" /\ req[r].route \in ProfileRoutes /\ req'[r].pc = "done"
C24_ProfileKeepsRole ==
  [][\A r \in Slots :
       ProfileAnswered(r) =>
         \A id \in DOMAIN users :
           /\ users'[id].role = users[id].role
           /\ adminDecision([NoReqUser EXCEPT !.set = TRUE, !.role = users[id].role]) = 403 =>
                adminDecision([NoReqUser EXCEPT !.set = TRUE, !.role = users'[id].role]) = 403]_vars

\* C25 (as claimed): isActive is monotone: once false for a user, no operation
\* sets it back to true.
C25_InactiveForever ==
  [][\A id \in DOMAIN users : ~users[id].isActive => ~users'[id].isActive]_vars

\* C26: a request whose identity is soft-deleted after authMiddleware's store
\* lookup and before its handler is not stopped: the handler runs with the
\* identity captured at the lookup and nothing re-checks isActive.
Stale(rq) == rq.reqUser.set /\ ~users[rq.reqUser.id].isActive
C26_StaleIdentityRuns ==
  [][\A r \in Slots :
       (req[r].pc = "handler" /\ Stale(req[r]) /\ req'[r].pc = "done") =>
         /\ req'[r].res.status \notin {401, 403}
         /\ req'[r].reqUser = req[r].reqUser
         /\ req'[r].log[Len(req'[r].log)] = "handler.json"]_vars
C26_Witness ==
  \E r \in Slots :
    /\ req[r].pc = "done"
    /\ req[r].route = "GET /users/profile"
    /\ req[r].user.isActive
    /\ req[r].reqUser.id = "u2"
    /\ req[r].outcome = "inactive"
    /\ req[r].res.status = 200

\* C27: UserService.updateUser never changes a stored password, whatever the
\* update data, a password field included.
UpdateStep(r) == req[r].route = "PUT /users/:id" /\ req[r].pc \in {"updateFindOne", "update"}
C27_UpdateKeepsPassword ==
  [][\A r \in Slots :
       UpdateStep(r) /\ req'[r] # req[r] =>
         \A id \in DOMAIN users : users'[id].password = users[id].password]_vars
C27_Witness ==
  \E r \in Slots :
    /\ req[r].pc = "done"
    /\ req[r].outcome = "updated"
    /\ req[r].data = [email |-> "c@x.io", password |-> "pw"]
    /\ users[req[r].param].email = "c@x.io"
    /\ users[req[r].param].password = StoredPassword

\* C28: a soft-deleted user's email and username stay reserved: a createUser
\* whose lookup comes after deleteUser of a holder of its email or username
\* adds no user record.
C28_DeletedStayReserved ==
  \A r \in Slots :
    (afterDelete[r] /\ req[r].route = "POST /users") =>
      /\ req[r].outcome # "saved"
      /\ req[r].param = ""
      /\ req[r].pc = "done" => req[r].res.status # 201
C28_Witness ==
  \E r \in Slots :
    /\ afterDelete[r]
    /\ req[r].route = "POST /users"
    /\ req[r].pc = "done"
    /\ req[r].found \in deleted
    /\ ~users[req[r].found].isActive
    /\ req[r].outcome = "ValidationError"
    /\ NewId \notin DOMAIN users

\* C30 (as claimed): when the duplicate lookup of createUser or updateUser
\* returns a conflicting user, the call throws ValidationError and goes on to
\* no save or update, also when the found record differs from the input only
\* by the schema's lower-casing.
C30_ConflictThrows ==
  \A r \in Slots :
    req[r].found # "" =>
      /\ req[r].pc \notin {"save", "update"}
      /\ req[r].pc = "done" => req[r].outcome = "ValidationError"

\* C23: under any interleaving of concurrent createUser and updateUser calls
\* (each a lookup followed by a separate write) the store never holds two users
\* with the same email or two users with the same username.
C23_NoDuplicates ==
  \A a \in DOMAIN users : \A b \in DOMAIN users \ {a} :
    users[a].email # users[b].email /\ users[a].username # users[b].username
C23_Witness ==
  \E r1 \in Slots : \E r2 \in Slots \ {r1} :
    /\ req[r1].route = "POST /users"
    /\ req[r1].outcome = "saved"
    /\ req[r1].body.email = "c@x.io"
    /\ req[r2].route = "PUT /users/:id"
    /\ req[r2].data = [email |-> "c@x.io"]
    /\ req[r2].found = ""
    /\ req[r2].outcome = DuplicateKeyError

\* C22 (as claimed): getAllUsers({page, limit, search, role}) returns only
\* active users that match the filters, total is the number of such users, the
\* users are at most limit many and start at offset (page-1)*limit of the
\* newest-first order, pages is ceil(total/limit), and no soft-deleted user is
\* in the result.
Returned(c) == c.op = "getAllUsers" /\ c.result.kind = "result"
Matching(store, options) ==
  {id \in DOMAIN store :
     /\ store[id].isActive
     /\ options.role # "" => store[id].role = options.role
     /\ options.search # "" => regexMatches(store[id], options.search)}
IsCeil(pages, total, limit) ==
  IF limit > 0 THEN pages * limit >= total /\ (pages - 1) * limit < total
  ELSE pages * limit <= total /\ (pages - 1) * limit > total
PageOf(store, c) ==
  LET res == c.result
      opt == c.options
      offset == (opt.page - 1) * opt.limit
  IN  /\ \A i \in DOMAIN res.users : res.users[i] \in Matching(store, opt)
      /\ \A i \in DOMAIN res.users : \A j \in DOMAIN res.users :
            i < j => CreatedAt(res.users[i]) > CreatedAt(res.users[j])
      /\ res.total = Cardinality(Matching(store, opt))
      /\ Len(res.users) <= opt.limit
      /\ \A id \in Matching(store, opt) :
            LET newer == Cardinality({x \in Matching(store, opt) : CreatedAt(x) > CreatedAt(id)})
            IN  (\E i \in DOMAIN res.users : res.users[i] = id)
                  <=> (newer >= offset /\ newer < offset + opt.limit)
      /\ IsCeil(res.pages, res.total, opt.limit)
      /\ \A i \in DOMAIN res.users : res.users[i] \notin {d \in deleted : ~store[d].isActive}
C22_GetAllUsersPage ==
  [][(call' # call /\ Returned(call')) => PageOf(users, call')]_vars

\* C29: after deleteUser(id), getUserByEmail and getUserByUsername return null
\* for that user while getUserById(id) still returns the inactive record, so
\* the admin GET /users/:id and PUT /users/:id handlers still read and modify
\* a soft-deleted user.
SoftDeleted(store) == {id \in deleted : ~store[id].isActive}
C29_SoftDeletedReads ==
  [][call' # call =>
       /\ call'.op = "getUserByEmail" =>
            \A id \in SoftDeleted(users) :
              users[id].email = ToLowerCase(call'.arg) => call'.result = NullUser
       /\ call'.op = "getUserByUsername" =>
            \A id \in SoftDeleted(users) :
              users[id].username = call'.arg => call'.result = NullUser
       /\ (call'.op = "getUserById" /\ call'.arg \in SoftDeleted(users)) =>
            /\ call'.result.kind = "doc"
            /\ call'.result.id = call'.arg
            /\ ~call'.result.isActive
            /\ call'.status = 200
       /\ (call'.op = "updateUser" /\ call'.arg \in SoftDeleted(users)) =>
            /\ call'.status = 200
            /\ \A f \in DOMAIN call'.data \ {"password"} :
                 users'[call'.arg][f] = call'.data[f]]_vars
C29_Witness ==
  /\ call.op = "getUserByEmail"
  /\ call.result = NullUser
  /\ \E id \in SoftDeleted(users) : users[id].email = ToLowerCase(call.arg)

\* C21: no response body of the create, get or update user endpoints, in
\* either stack, contains the user's password or password hash: neither as a
\* password/passwordHash field nor as the value of another field or message.
SecretValues == {"secret", "pw", "pw2", hash("secret"), hash("pw"), hash("pw2")}
StringFields == {"_id", "id", "email", "username", "name", "role"}
C21_NoPasswordInBody ==
  call # NoCall =>
    /\ \A d \in call.data :
         /\ "password" \notin DOMAIN d
         /\ "passwordHash" \notin DOMAIN d
         /\ \A f \in DOMAIN d \cap StringFields : d[f] \notin SecretValues
    /\ call.errors \cap SecretValues = {}
C21_Witness ==
  /\ call.op = "POST /users"
  /\ call.status = 201
  /\ \E d \in call.data : d["_id"] = NewId /\ d.email = "c@x.io"
  /\ NewId \in DOMAIN users
  /\ users[NewId].password = StoredPassword

====
